---------------------------- MODULE Spec2Model ----------------------------
(***************************************************************************)
(* Model of the recording-orchestration engine of multi_chzzk_recorder.py: *)
(* the poll loop (main thread), the command poller (daemon thread), the    *)
(* background download threads, the registry (record_dict and              *)
(* recorder_processes), the persisted list record_list.txt, and the two    *)
(* ZMQ channels to the bot peer.                                           *)
(***************************************************************************)
EXTENDS Integers, Sequences, FiniteSets, TLC

(***************************************************************************)
(* Bounds of the model and input sets.                                     *)
(***************************************************************************)
MaxDownloads == 2          \* downloads in progress at the same time
MaxRecordingCount == 2     \* cap of the drifting counter recording_count

None == "None"
Ids == {"c1", "c2"}        \* channel ids that exist on the platform
BadId == "bad"             \* an id the platform does not know
ChannelName == [c \in Ids |-> IF c = "c1" THEN "n1" ELSE "n2"]
Names == {"n1", "n2"}
Urls == {"v1", "badurl"}   \* "v1" matches the video URL pattern, "badurl" not
StartupList == <<"c1">>    \* content of record_list.txt when the engine starts

ApiOutcomes == {"ok", "http_error", "timeout"}

VARIABLES
    CHAT,                 \* cfg['record_chat']
    FALLBACK,             \* cfg['fallback_to_current_dir']
    MNT_CMD,              \* cfg['mount_command'] is set
    rootExists,           \* os.path.isdir(self.ROOT_PATH)
    record_dict,          \* insertion-ordered keys of self.record_dict
    recorder_processes,   \* self.recorder_processes: id -> entry
    recording_count,      \* self.recording_count
    persisted,            \* lines of record_list.txt
    orphans,              \* running subprocesses no entry refers to any more
    loopPc,               \* position of the main thread in loop()
    loop_running,         \* self.loop_running
    message_sent,         \* local of loop()
    iterLen,              \* size of record_dict the for-iterator was made with
    iterIdx,              \* number of keys the for-iterator has handed out
    channel_id,           \* loop variable of loop()
    is_streaming,         \* local of loop(), live between lines 572 and 640
    loopOut,              \* messages the latest step of the loop put on the
                          \* notify socket
    loopEnv,              \* what the latest step of the loop got from the
                          \* platform API and from the file system
    cycle_notified,       \* the loop put a message other than a heartbeat on
                          \* the notify socket in this cycle
    cycle_quiet,          \* every channel the loop has visited in this cycle
                          \* was idle and reported not live
    pollPc,               \* position of the command poller thread
    command_data,         \* command being handled by the poller
    cmd_channel_id,       \* local channel_id of add_streamer / remove_streamer
    repState,             \* REP socket: "recv" (awaits a request) or "send"
    replyLog,             \* messages sent on the command socket since the
                          \* latest request was received
    asyncOut,             \* messages the latest step of the poller or of a
                          \* download thread put on the notify socket
    downloads,            \* background download threads (start_dl)
    existing,             \* names of the files that exist in the directory a
                          \* path is resolved in (os.path.exists)
    fsDirs,               \* the fallback directories that exist
    resolved,             \* latest call of get_file_path on its own: its
                          \* arguments, what it found and what it returned
    bridgePc,             \* position of the main thread from init_discord_bot
                          \* to the call of loop()
    botPc,                \* position of the bot process (on_ready)
    notifyChan,           \* token of the bot on its way on the notify socket
    cmdChan,              \* token of the bot on its way on the command socket
    okChan,               \* reply of the engine on its way on the command
                          \* socket
    message,              \* local of init_discord_bot
    message_cmd,          \* local of init_discord_bot
    peerDiedEarly,        \* the bot process exited while the engine was
                          \* still in the handshake
    initPc,               \* position of __init__ in the load of
                          \* record_list.txt
    initIdx,              \* index of the identifier being loaded
    addSnap,              \* the registry as the latest add that passed its
                          \* checks found it, until a remove succeeds
    searched              \* latest search by name of add_streamer: the name,
                          \* the result page of the platform, the identifier
                          \* get_channel_id returned

config == <<CHAT, FALLBACK, MNT_CMD>>
registry == <<record_dict, recorder_processes, recording_count, persisted, orphans>>
loopVars == <<loopPc, loop_running, message_sent, iterLen, iterIdx, channel_id,
              is_streaming, loopOut, loopEnv, cycle_notified, cycle_quiet>>
pollVars == <<pollPc, command_data, cmd_channel_id, addSnap, searched>>
cmdSock == <<repState, replyLog>>
\* the variables only the specification of path resolution moves
pathVars == <<existing, fsDirs, resolved>>
\* the variables only the specification of the handshake moves
bridgeVars == <<bridgePc, botPc, notifyChan, cmdChan, okChan, message,
                message_cmd, peerDiedEarly>>
\* the variables only the load of record_list.txt moves
loadVars == <<initPc, initIdx>>
sideVars == <<pathVars, bridgeVars, loadVars>>
vars == <<CHAT, FALLBACK, MNT_CMD, rootExists, record_dict, recorder_processes,
          recording_count, persisted, orphans, loopPc, loop_running,
          message_sent, iterLen, iterIdx, channel_id, is_streaming, loopOut,
          loopEnv, cycle_notified, cycle_quiet, pollPc, command_data,
          cmd_channel_id,
          repState, replyLog, asyncOut, downloads, existing, fsDirs, resolved,
          bridgePc, botPc, notifyChan, cmdChan, okChan, message, message_cmd,
          peerDiedEarly, initPc, initIdx, addSnap, searched>>

(***************************************************************************)
(* Helpers.                                                                *)
(***************************************************************************)
Keys(d) == {d[i] : i \in DOMAIN d}

\* dict.pop(key) / del dict[key] on the ordered key list
Pop(d, k) == SelectSeq(d, LAMBDA x : x # k)

\* dict[key] = value on the ordered key list: a new key goes last
SetKey(d, k) == IF k \in Keys(d) THEN d ELSE Append(d, k)

\* a del that leaves the entry in the table
DelEntry_Keep(rp, k) == rp

\* del self.recorder_processes[k]
DelEntry(rp, k) == [c \in DOMAIN rp \ {k} |-> rp[c]]

\* self.recorder_processes[k] = e
PutEntry(rp, k, e) == [c \in DOMAIN rp \cup {k} |-> IF c = k THEN e ELSE rp[c]]

\* self.recorder_processes[k][field] = v (creates the field when missing)
SetField(e, field, v) ==
    [f \in DOMAIN e \cup {field} |-> IF f = field THEN v ELSE e[f]]

\* entry built by __init__ for every channel of record_list.txt
StartupEntry == [recorder |-> None, path |-> None, chat_recorder |-> None]

\* entry built by add_streamer
AddedEntry == [recorder |-> None, path |-> None]

NoCommand == [type |-> None]

Msg(kind, chan) == [kind |-> kind, chan |-> chan]

NoEnv == [check |-> None, file |-> None]

NoCall == [called |-> FALSE]

\* a socket of the handshake with nothing on its way
NoToken == [st |-> "empty", tok |-> None]

\* the bridge after the handshake: init_discord_bot has returned, __init__ is
\* over and main() has called loop()
BridgeUp ==
    /\ bridgePc = "in_loop"
    /\ botPc = "ready"
    /\ notifyChan = NoToken
    /\ cmdChan = NoToken
    /\ okChan = NoToken
    /\ message = "ready"
    /\ message_cmd = "ready"
    /\ peerDiedEarly = FALSE

Configs == [CHAT : BOOLEAN, FALLBACK : BOOLEAN, MNT_CMD : BOOLEAN]

TypeOK ==
    /\ CHAT \in BOOLEAN /\ FALLBACK \in BOOLEAN /\ MNT_CMD \in BOOLEAN
    /\ rootExists \in BOOLEAN
    /\ Keys(record_dict) \subseteq Ids
    /\ DOMAIN recorder_processes \subseteq Ids
    /\ loop_running \in BOOLEAN
    /\ message_sent \in BOOLEAN
    /\ cycle_notified \in BOOLEAN
    /\ cycle_quiet \in BOOLEAN
    /\ loopPc \in {"start", "body", "handle", "end", "crashed"}
    /\ repState \in {"recv", "send"}
    /\ Len(replyLog) <= 1
    /\ Len(downloads) <= MaxDownloads

\* the state after __init__, for a configuration cfg
InitWith(cfg) ==
    /\ CHAT = cfg.CHAT
    /\ FALLBACK = cfg.FALLBACK
    /\ MNT_CMD = cfg.MNT_CMD
    /\ rootExists = TRUE
    /\ record_dict = StartupList
    /\ recorder_processes = [c \in Keys(StartupList) |-> StartupEntry]
    /\ recording_count = 0
    /\ persisted = StartupList
    /\ orphans = {}
    /\ loopPc = "start"
    /\ loop_running = FALSE
    /\ message_sent = FALSE
    /\ iterLen = 0
    /\ iterIdx = 0
    /\ channel_id = None
    /\ is_streaming = None
    /\ loopOut = <<>>
    /\ loopEnv = NoEnv
    /\ cycle_notified = FALSE
    /\ cycle_quiet = TRUE
    /\ pollPc = "idle"
    /\ command_data = NoCommand
    /\ cmd_channel_id = None
    /\ repState = "recv"
    /\ replyLog = <<>>
    /\ asyncOut = <<>>
    /\ downloads = <<>>
    /\ existing = {}
    /\ fsDirs = {}
    /\ resolved = NoCall
    /\ initPc = "done"
    /\ initIdx = Len(StartupList) + 1
    /\ addSnap = NoCall
    /\ searched = NoCall

(***************************************************************************)
(* Environment: the platform API, the file system, the subprocesses.       *)
(***************************************************************************)

\* ChzzkAPI.check_live: requests.get raises on a timeout before the try block
\* is entered; an HTTP error status gives (False, None)
check_live(outcome, status) ==
    CASE outcome = "timeout" -> [raised |-> TRUE, is_streaming |-> None]
      [] outcome = "http_error" -> [raised |-> FALSE, is_streaming |-> "False"]
      [] OTHER -> [raised |-> FALSE,
                   is_streaming |-> IF status = "OPEN" THEN "True" ELSE "False"]

\* ChzzkAPI.get_channel_info: None on an HTTP error status, the channel
\* data (here: its name) on success, an exception on a timeout
get_channel_info(id, outcome) ==
    CASE outcome = "timeout" -> [raised |-> TRUE, data |-> None]
      [] outcome = "ok" /\ id \in Ids -> [raised |-> FALSE, data |-> ChannelName[id]]
      [] OTHER -> [raised |-> FALSE, data |-> None]

\* file name built from FILE_NAME_FORMAT
FileName(username) == "[" \o username \o "]s.ts"

\* str.endswith
endswith(str, suffix) ==
    /\ Len(suffix) <= Len(str)
    /\ SubSeq(str, Len(str) - Len(suffix) + 1, Len(str)) = suffix

\* str.removesuffix
removesuffix(str, suffix) ==
    IF suffix # "" /\ endswith(str, suffix)
    THEN SubSeq(str, 1, Len(str) - Len(suffix))
    ELSE str

\* str.rfind of a one-character string, counted from 1; 0 when absent
rfind(str, ch) ==
    LET at == {i \in 1..Len(str) : SubSeq(str, i, i) = ch}
    IN  IF at = {} THEN 0 ELSE CHOOSE i \in at : \A k \in at : k <= i

\* os.path.splitext: the extension starts at the last dot of the last path
\* component, unless only dots precede it there
splitext(p) ==
    LET sep == rfind(p, "/")
        dot == rfind(p, ".")
    IN  IF dot > sep /\ \E i \in (sep + 1)..(dot - 1) : SubSeq(p, i, i) # "."
        THEN [root |-> SubSeq(p, 1, dot - 1), ext |-> SubSeq(p, dot, Len(p))]
        ELSE [root |-> p, ext |-> ""]

\* os.path.join of a directory and a relative name
join(dir, name) == dir \o "/" \o name

\* f" ({n})"
Suffix(n) == " (" \o ToString(n) \o ")"

RootPath == "ROOT"         \* self.ROOT_PATH
Cwd == "CWD"               \* os.getcwd()
FallbackRoot == "fallback_recordings"

\* os.path.exists of a path in the directory file_dir
exists(p, file_dir) == \E name \in existing : p = join(file_dir, name)

\* a renaming that would keep the suffix of the previous round (lines 425-426
\* dropped): the variant C18_SmallestFreeSuffix has to reject
strip_previous_Never(file_path_no_ext, uq_num) == file_path_no_ext

\* lines 425-426: from the second round on, the suffix the previous round
\* appended is taken off again
strip_previous(file_path_no_ext, uq_num) ==
    IF uq_num > 1 /\ endswith(file_path_no_ext, Suffix(uq_num - 1))
    THEN removesuffix(file_path_no_ext, Suffix(uq_num - 1))
    ELSE file_path_no_ext

\* lines 419-430: the while loop that looks for a path no file has
RECURSIVE unique_path(_, _, _)
unique_path(rec_file_path, uq_num, file_dir) ==
    IF ~exists(rec_file_path, file_dir)
    THEN rec_file_path
    ELSE LET n == uq_num + 1
             parts == splitext(rec_file_path)
         IN  unique_path(strip_previous(parts.root, n) \o Suffix(n) \o parts.ext,
                         n, file_dir)

\* a fallback branch that would create no directory: the variant
\* C17_FallbackPath has to reject
make_fallback_dirs_None(sub_dir, dirs) == dirs

\* lines 399-403: the fallback directories are created when missing
make_fallback_dirs(sub_dir, dirs) ==
    dirs \cup {FallbackRoot, join(FallbackRoot, sub_dir)}

\* MultiChzzkRecorder.get_file_path, lines 375-430.
\* mountOk: the mount command ran and ROOT_PATH is a directory afterwards.
\* The storage error is sent whenever the root was absent at line 381 and the
\* fallback branch of line 396 is not taken, also after a mount that worked.
get_file_path(username, file_name, is_vod, mountOk) ==
    LET sub_dir == IF is_vod THEN "VOD" ELSE username
        rootAfter == rootExists \/ (MNT_CMD /\ mountOk)
        fallback == ~rootExists /\ ~rootAfter /\ FALLBACK
        file_dir == IF fallback
                    THEN join(join(Cwd, FallbackRoot), sub_dir)
                    ELSE join(RootPath, sub_dir)
    IN  IF ~rootExists /\ ~fallback
        THEN [path |-> None, msgs |-> <<"storage_error">>, root |-> rootAfter,
              dirs |-> fsDirs]
        ELSE [path |-> unique_path(join(file_dir, file_name), 0, file_dir),
              msgs |-> IF fallback THEN <<"warning">> ELSE <<>>,
              root |-> rootAfter,
              dirs |-> IF fallback THEN make_fallback_dirs(sub_dir, fsDirs)
                       ELSE fsDirs]

\* a running capture process exits (the stream ended, or the tool failed)
ProcExit(c) ==
    /\ c \in DOMAIN recorder_processes
    /\ recorder_processes[c].recorder = "running"
    /\ recorder_processes' =
         [recorder_processes EXCEPT ![c] = SetField(@, "recorder", "exited")]
    /\ UNCHANGED <<config, sideVars, rootExists, record_dict, recording_count, persisted,
                   orphans, loopVars, pollVars, cmdSock, asyncOut, downloads>>

\* a subprocess the engine lost track of exits
OrphanExit(o) ==
    /\ o \in orphans
    /\ orphans' = orphans \ {o}
    /\ UNCHANGED <<config, sideVars, rootExists, record_dict, recorder_processes,
                   recording_count, persisted, loopVars, pollVars, cmdSock,
                   asyncOut, downloads>>

\* the storage root disappears (unmounted) or comes back
RootChange ==
    /\ rootExists' = ~rootExists
    /\ UNCHANGED <<config, sideVars, registry, loopVars, pollVars, cmdSock, asyncOut,
                   downloads>>

(***************************************************************************)
(* loop(): the main thread.  An uncaught exception ends the thread         *)
(* (loopPc = "crashed"); loop_running then keeps its value.                *)
(***************************************************************************)
IsAlive(m) == m.kind = "alive"

\* send_message / send_embed / send_alive of the loop on the notify socket
LoopSends(msgs) ==
    /\ loopOut' = msgs
    /\ cycle_notified' = (cycle_notified \/ \E i \in DOMAIN msgs : ~IsAlive(msgs[i]))

LoopCrash(env) ==
    /\ loopPc' = "crashed"
    /\ loopEnv' = env
    /\ LoopSends(<<>>)
    /\ UNCHANGED <<loop_running, message_sent, iterLen, iterIdx, channel_id,
                   is_streaming>>

\* what no step of the loop touches
LoopFrame == UNCHANGED <<config, sideVars, record_dict, persisted, pollVars, cmdSock,
                         asyncOut, downloads>>

\* lines 523-527: a cycle starts; the for-iterator over record_dict is made
LoopStart ==
    /\ loopPc = "start"
    /\ loop_running' = TRUE
    /\ message_sent' = FALSE
    /\ iterLen' = Len(record_dict)
    /\ iterIdx' = 0
    /\ loopPc' = "body"
    /\ loopOut' = <<>>
    /\ loopEnv' = NoEnv
    /\ cycle_notified' = FALSE
    /\ UNCHANGED <<channel_id, is_streaming, rootExists, recorder_processes,
                   recording_count, orphans>>
    /\ cycle_quiet' = TRUE
    /\ LoopFrame

\* line 527, next() of the dict iterator: RuntimeError when the size of the
\* dict changed since the iterator was made
LoopIterError ==
    /\ loopPc = "body"
    /\ Len(record_dict) # iterLen
    /\ LoopCrash(NoEnv)
    /\ UNCHANGED <<rootExists, recorder_processes, recording_count, orphans>>
    /\ cycle_quiet' = FALSE
    /\ LoopFrame

\* line 527: the iterator is exhausted
LoopExhausted ==
    /\ loopPc = "body"
    /\ Len(record_dict) = iterLen
    /\ iterIdx >= Len(record_dict)
    /\ loopPc' = "end"
    /\ loopEnv' = NoEnv
    /\ LoopSends(<<>>)
    /\ UNCHANGED <<loop_running, message_sent, iterLen, iterIdx, channel_id,
                   is_streaming, rootExists, recorder_processes,
                   recording_count, orphans>>
    /\ UNCHANGED cycle_quiet
    /\ LoopFrame

\* line 527: the iterator hands out the next key
HasNext ==
    /\ loopPc = "body"
    /\ Len(record_dict) = iterLen
    /\ iterIdx < Len(record_dict)

NextKey == record_dict[iterIdx + 1]

Advance ==
    /\ channel_id' = NextKey
    /\ iterIdx' = iterIdx + 1

\* line 528 with a key missing from recorder_processes: KeyError
VisitKeyError ==
    /\ HasNext
    /\ NextKey \notin DOMAIN recorder_processes
    /\ Advance
    /\ loopPc' = "crashed"
    /\ loopEnv' = NoEnv
    /\ LoopSends(<<>>)
    /\ UNCHANGED <<loop_running, message_sent, iterLen, is_streaming, rootExists,
                   recorder_processes, recording_count, orphans>>
    /\ cycle_quiet' = FALSE
    /\ LoopFrame

\* lines 528-530: a capture is tracked and still running
VisitRunning ==
    /\ HasNext
    /\ NextKey \in DOMAIN recorder_processes
    /\ recorder_processes[NextKey].recorder = "running"
    /\ Advance
    /\ loopPc' = "body"
    /\ loopEnv' = NoEnv
    /\ LoopSends(<<>>)
    /\ UNCHANGED <<loop_running, message_sent, iterLen, is_streaming, rootExists,
                   recorder_processes, recording_count, orphans>>
    /\ cycle_quiet' = FALSE
    /\ LoopFrame

\* lines 558-567, after the notification of a reaped capture: the entry is
\* cleared; reading a chat_recorder key the entry does not have raises KeyError
\* before the count is decremented
ReapClear(entry) ==
    LET cleared == SetField(SetField(entry, "recorder", None), "path", None)
    IN  IF "chat_recorder" \notin DOMAIN entry
        THEN [entry |-> cleared, raised |-> TRUE, dec |-> 0]
        ELSE [entry |-> SetField(cleared, "chat_recorder", None),
              raised |-> FALSE, dec |-> 1]

\* lines 530-567: the tracked capture has an exit code: reap it.
\* fileExists: os.path.getsize finds the recorded file.
VisitReap(fileExists) ==
    /\ HasNext
    /\ NextKey \in DOMAIN recorder_processes
    /\ recorder_processes[NextKey].recorder = "exited"
    /\ Advance
    /\ loopEnv' = [check |-> None, file |-> IF fileExists THEN "found" ELSE "missing"]
    /\ IF ~fileExists
       THEN \* lines 549-555: communicate() gives stderr = None (no pipe at
            \* line 606) and stderr.decode() raises AttributeError
            /\ loopPc' = "crashed"
            /\ LoopSends(<<>>)
            /\ UNCHANGED <<message_sent, recorder_processes, recording_count>>
       ELSE LET r == ReapClear(recorder_processes[NextKey])
            IN  /\ LoopSends(<<Msg("rec_ended", NextKey)>>)
                /\ message_sent' = TRUE
                /\ recorder_processes' =
                     [recorder_processes EXCEPT ![NextKey] = r.entry]
                /\ recording_count' = recording_count - r.dec
                /\ loopPc' = IF r.raised THEN "crashed" ELSE "body"
    /\ UNCHANGED <<loop_running, iterLen, is_streaming, rootExists, orphans>>
    /\ cycle_quiet' = FALSE
    /\ LoopFrame

\* a test of lines 529 and 576 that would let every entry pass: the variant
\* C12_OneCapturePerChannel has to reject
NoRecorder_Always(entry) == TRUE

\* lines 529 and 576: the entry tracks no capture (recorder is None)
NoRecorder(entry) == entry.recorder = None

\* lines 569-572: no capture tracked: query the live status
VisitCheckLive(outcome, status) ==
    /\ HasNext
    /\ NextKey \in DOMAIN recorder_processes
    /\ NoRecorder(recorder_processes[NextKey])
    /\ status = "OPEN" => recording_count < MaxRecordingCount
    /\ Advance
    /\ LET r == check_live(outcome, status)
       IN  /\ loopPc' = IF r.raised THEN "body" ELSE "handle"  \* line 641
           /\ is_streaming' = r.is_streaming
    /\ loopEnv' = [check |-> outcome, file |-> None]
    /\ LoopSends(<<>>)
    /\ UNCHANGED <<loop_running, message_sent, iterLen, rootExists,
                   recorder_processes, recording_count, orphans>>
    /\ cycle_quiet' = (cycle_quiet /\ outcome = "ok" /\ status # "OPEN")
    /\ LoopFrame


\* a launch that would store the capture handle and leave the path unset
\* (line 607 dropped): the variant C2_PathIffRecorder has to reject
StartRecording_PathUnset(entry, path) ==
    LET e1 == SetField(entry, "recorder", "running")
    IN  IF CHAT THEN SetField(e1, "chat_recorder", "running") ELSE e1

\* lines 606-622: the entry after the launch of the capture (and of the chat
\* capture when CHAT is set)
StartRecording(entry, path) ==
    LET e1 == SetField(SetField(entry, "recorder", "running"), "path", path)
    IN  IF CHAT THEN SetField(e1, "chat_recorder", "running") ELSE e1

\* a chat process whose handle line 611 overwrites keeps running untracked
ChatOverwritten(entry, c) ==
    IF CHAT /\ "chat_recorder" \in DOMAIN entry /\ entry.chat_recorder = "running"
    THEN {[kind |-> "chat", chan |-> c]}
    ELSE {}

\* a launch that would send no notification: the variant
\* C13_StartedOncePerLaunch has to reject
StartedMsgs_Silent(sent, c) == sent

\* lines 623-636: "recording started" follows what get_file_path has sent
StartedMsgs(sent, c) == Append(sent, Msg("rec_started", c))

\* a capture process whose handle line 606 overwrites keeps running untracked
CaptureOverwritten(entry, c) ==
    IF entry.recorder = "running" THEN {[kind |-> "capture", chan |-> c]} ELSE {}

\* lines 576-637: the channel is live
HandleLive(mountOk) ==
    /\ loopPc = "handle"
    /\ is_streaming = "True"
    /\ is_streaming' = None
    /\ IF channel_id \notin DOMAIN recorder_processes
          \/ (NoRecorder(recorder_processes[channel_id])
              /\ channel_id \notin Keys(record_dict))
       THEN \* KeyError at line 576 or at line 580: the channel was removed
            /\ loopPc' = "crashed"
            /\ LoopSends(<<>>)
            /\ UNCHANGED <<message_sent, rootExists, recorder_processes,
                           recording_count, orphans>>
       ELSE IF ~NoRecorder(recorder_processes[channel_id])
       THEN \* line 639: neither branch applies
            /\ loopPc' = "body"
            /\ LoopSends(<<>>)
            /\ UNCHANGED <<message_sent, rootExists, recorder_processes,
                           recording_count, orphans>>
       ELSE LET username == ChannelName[channel_id]
                r == get_file_path(username, FileName(username), FALSE, mountOk)
                sent == [i \in DOMAIN r.msgs |-> Msg(r.msgs[i], channel_id)]
                entry == recorder_processes[channel_id]
            IN  /\ rootExists' = r.root
                /\ loopPc' = "body"
                /\ IF r.path = None
                   THEN \* lines 590-591
                        /\ LoopSends(sent)
                        /\ UNCHANGED <<recorder_processes, recording_count,
                                       orphans, message_sent>>
                   ELSE /\ recorder_processes' =
                             [recorder_processes EXCEPT
                                 ![channel_id] = StartRecording(entry, r.path)]
                        /\ orphans' = orphans \cup ChatOverwritten(entry, channel_id)
                                              \cup CaptureOverwritten(entry, channel_id)
                        /\ recording_count' = recording_count + 1
                        /\ LoopSends(StartedMsgs(sent, channel_id))
                        /\ message_sent' = TRUE
    /\ UNCHANGED <<loop_running, iterLen, iterIdx, channel_id, loopEnv>>
    /\ UNCHANGED cycle_quiet
    /\ LoopFrame

\* lines 573-575 and 639-640: is_streaming is None (failure notification)
\* or False (offline, nothing to do)
HandleNotLive ==
    /\ loopPc = "handle"
    /\ is_streaming # "True"
    /\ is_streaming' = None
    /\ IF is_streaming = None
       THEN /\ LoopSends(<<Msg("check_failed", channel_id)>>)
            /\ message_sent' = TRUE
       ELSE /\ LoopSends(<<>>)
            /\ UNCHANGED message_sent
    /\ loopPc' = "body"
    /\ UNCHANGED <<loop_running, iterLen, iterIdx, channel_id, loopEnv,
                   rootExists, recorder_processes, recording_count, orphans>>
    /\ UNCHANGED cycle_quiet
    /\ LoopFrame

\* a cycle end that would never send the heartbeat: the variant
\* C14_NotLiveIsSilent has to reject
CycleEndMsgs_None(sent) == <<>>

\* lines 649-650: the heartbeat is sent when message_sent is false
CycleEndMsgs(sent) == IF sent THEN <<>> ELSE <<Msg("alive", None)>>

\* lines 644-653: heartbeat when message_sent is false, the cycle ends
LoopEnd ==
    /\ loopPc = "end"
    /\ LoopSends(CycleEndMsgs(message_sent))
    /\ loop_running' = FALSE
    /\ loopPc' = "start"
    /\ loopEnv' = NoEnv
    /\ UNCHANGED <<message_sent, iterLen, iterIdx, channel_id, is_streaming,
                   rootExists, recorder_processes, recording_count, orphans>>
    /\ UNCHANGED cycle_quiet
    /\ LoopFrame

(***************************************************************************)
(* The command socket (REP) and the command poller.                        *)
(***************************************************************************)
Commands ==
    [type : {"add"}, channel : Ids \cup {BadId}, add_by_name : {FALSE}]
    \cup [type : {"add"}, channel : Names, add_by_name : {TRUE}]
    \cup [type : {"remove"}, channel_id : Ids]
    \cup [type : {"list"}]
    \cup [type : {"dl"}, url : Urls]

\* the requests the bundled bot builds for its add, remove and list commands
BotCommands ==
    [type : {"add"}, channel_id : Ids \cup {BadId}]
    \cup [type : {"remove"}, channel_id : Ids]
    \cup [type : {"list"}]

Reply(kind, by) == [kind |-> kind, by |-> by]

\* send on the REP socket: possible only after a request was received;
\* otherwise zmq raises ZMQError and nothing is sent
CmdSend(kind, by) ==
    IF repState = "send"
    THEN /\ replyLog' = Append(replyLog, Reply(kind, by))
         /\ repState' = "recv"
    ELSE UNCHANGED <<repState, replyLog>>

\* what no step of the poller touches
HandlerFrame == UNCHANGED <<config, sideVars, loopVars, searched>>
PollFrame == HandlerFrame /\ UNCHANGED addSnap

\* the handler is over: back to recv_json in poll_command
Handled ==
    /\ pollPc' = "idle"
    /\ command_data' = NoCommand
    /\ cmd_channel_id' = None

\* an exception other than ZMQError ends the poller thread
PollerDies ==
    /\ pollPc' = "dead"
    /\ command_data' = NoCommand
    /\ cmd_channel_id' = None

\* poll_command, lines 280-281: the peer has sent a command (its REQ socket
\* lets it send only after the previous reply) and the poller receives it
PollRecv(cmd) ==
    /\ pollPc = "idle"
    /\ repState = "recv"
    /\ cmd.type = "dl" => Len(downloads) < MaxDownloads
    /\ command_data' = cmd
    /\ repState' = "send"
    /\ replyLog' = <<>>
    /\ pollPc' = "dispatch"
    /\ asyncOut' = <<>>
    /\ UNCHANGED <<rootExists, registry, cmd_channel_id, downloads>>
    /\ addSnap' = IF addSnap.called /\ addSnap.st = "removed"
                  THEN NoCall ELSE addSnap
    /\ HandlerFrame


(***************************************************************************)
(* add_streamer, on the command poller thread.                             *)
(***************************************************************************)
SearchSize == 1            \* size argument of _get_channel_by_name
Pages == {<<>>} \cup {<<a>> : a \in Ids}
         \cup {<<x[1], x[2]>> : x \in {y \in Ids \X Ids : y[1] # y[2]}}

\* ChzzkAPI._search_channel: the first `size` candidates of the result page
search_channel(page, size, outcome) ==
    CASE outcome = "timeout" -> [raised |-> TRUE, channels |-> <<>>]
      [] outcome = "http_error" -> [raised |-> FALSE, channels |-> <<>>]
      [] OTHER -> [raised |-> FALSE,
                   channels |-> SubSeq(page, 1, IF Len(page) < size
                                                THEN Len(page) ELSE size)]

\* the for loop of _get_channel_by_name, lines 120-125: both branches of its
\* body return, so it ends at the first candidate
first_candidate(channels, channel_name) ==
    IF ChannelName[channels[1]] = channel_name THEN channels[1] ELSE None

\* ChzzkAPI._get_channel_by_name and get_channel_id: None when the search
\* gave nothing, else what the for loop returns
get_channel_id(channel_name, page, outcome) ==
    LET r == search_channel(page, SearchSize, outcome)
    IN  [raised |-> r.raised,
         id |-> IF r.channels = <<>> THEN None
                ELSE first_candidate(r.channels, channel_name)]

\* poll_command, line 284: the arguments of add_streamer are read from the
\* request; a missing key raises KeyError, which is not a ZMQError and ends
\* the poller thread before add_streamer is called
AddKeyError ==
    /\ pollPc = "dispatch"
    /\ command_data.type = "add"
    /\ ~({"channel", "add_by_name"} \subseteq DOMAIN command_data)
    /\ PollerDies
    /\ asyncOut' = <<>>
    /\ UNCHANGED <<rootExists, registry, cmdSock, downloads>>
    /\ PollFrame

\* lines 316-326: resolve the id, refuse a tracked or an unknown channel
AddCheck(page, searchOutcome, infoOutcome) ==
    /\ pollPc = "dispatch"
    /\ command_data.type = "add"
    /\ {"channel", "add_by_name"} \subseteq DOMAIN command_data
    /\ LET res == IF command_data.add_by_name
                  THEN get_channel_id(command_data.channel, page, searchOutcome)
                  ELSE [raised |-> FALSE, id |-> command_data.channel]
           info == get_channel_info(res.id, infoOutcome)
       IN  IF res.raised
           THEN PollerDies /\ UNCHANGED cmdSock
           ELSE IF res.id \in Keys(record_dict)
           THEN Handled /\ CmdSend("add_failed_already", "poller")
           ELSE IF info.raised
           THEN PollerDies /\ UNCHANGED cmdSock
           ELSE IF info.data = None
           THEN Handled /\ CmdSend("add_failed_invalid", "poller")
           ELSE /\ pollPc' = "add_wait"
                /\ cmd_channel_id' = res.id
                /\ UNCHANGED <<command_data, cmdSock>>
    /\ addSnap' = IF pollPc' = "add_wait"
                  THEN [called |-> TRUE, st |-> "pending",
                        id |-> cmd_channel_id',
                        keys |-> Keys(record_dict),
                        procKeys |-> DOMAIN recorder_processes,
                        persisted |-> persisted]
                  ELSE addSnap
    /\ searched' = IF command_data.add_by_name
                   THEN LET res == get_channel_id(command_data.channel, page,
                                                  searchOutcome)
                        IN  [called |-> TRUE,
                             channel_name |-> command_data.channel,
                             page |-> page,
                             outcome |-> searchOutcome,
                             id |-> res.id]
                   ELSE searched
    /\ asyncOut' = <<>>
    /\ UNCHANGED <<rootExists, registry, downloads>>
    /\ UNCHANGED <<config, sideVars, loopVars>>

\* hasattr(self, 'loop_running'): the attribute exists once line 182, the last
\* statement of __init__, has run
hasattr_loop_running == bridgePc = "in_loop"

\* lines 329 and 357 before line 182 has run: reading self.loop_running raises
\* AttributeError, which is not a ZMQError and ends the poller thread
WaitAttributeError ==
    /\ pollPc \in {"add_wait", "remove_wait"}
    /\ ~hasattr_loop_running
    /\ PollerDies
    /\ asyncOut' = <<>>
    /\ UNCHANGED <<rootExists, registry, cmdSock, downloads>>
    /\ PollFrame

\* lines 328-329: the busy-wait saw loop_running false
AddWait ==
    /\ pollPc = "add_wait"
    /\ hasattr_loop_running
    /\ ~loop_running
    /\ pollPc' = "add_record_dict"
    /\ asyncOut' = <<>>
    /\ UNCHANGED <<rootExists, registry, command_data, cmd_channel_id, cmdSock,
                   downloads>>
    /\ PollFrame

\* line 330
AddRecordDict ==
    /\ pollPc = "add_record_dict"
    /\ record_dict' = SetKey(record_dict, cmd_channel_id)
    /\ pollPc' = "add_processes"
    /\ asyncOut' = <<>>
    /\ UNCHANGED <<rootExists, recorder_processes, recording_count, persisted,
                   orphans, command_data, cmd_channel_id, cmdSock, downloads>>
    /\ PollFrame

\* lines 331-335
AddProcesses ==
    /\ pollPc = "add_processes"
    /\ recorder_processes' = PutEntry(recorder_processes, cmd_channel_id, AddedEntry)
    /\ pollPc' = "add_open"
    /\ asyncOut' = <<>>
    /\ UNCHANGED <<rootExists, record_dict, recording_count, persisted, orphans,
                   command_data, cmd_channel_id, cmdSock, downloads>>
    /\ PollFrame

\* a save that leaves record_list.txt as it was
save_record_dict_Stale == persisted

\* save_record_dict, lines 311-313: the keys of record_dict, one per line
save_record_dict == record_dict

\* open('record_list.txt', 'w'), line 312: the file is truncated when it is
\* opened
truncate == <<>>

\* lines 337-344 and 312: storage subdirectory, then save_record_dict opens
\* the file.
\* makedirsOk: os.makedirs at line 342 succeeds; it creates the missing
\* parents too, so an absent root exists afterwards.  When it raises OSError
\* the exception is not a ZMQError and ends the poller thread.
AddOpen(makedirsOk) ==
    /\ pollPc = "add_open"
    /\ rootExists => makedirsOk
    /\ IF makedirsOk
       THEN /\ rootExists' = TRUE
            /\ persisted' = truncate
            /\ pollPc' = "add_save"
            /\ UNCHANGED <<command_data, cmd_channel_id>>
       ELSE /\ PollerDies
            /\ UNCHANGED <<rootExists, persisted>>
    /\ asyncOut' = <<>>
    /\ UNCHANGED <<record_dict, recorder_processes, recording_count,
                   orphans, cmdSock, downloads>>
    /\ PollFrame

\* lines 313 and 346: the list is written and the file closed, reply
AddSave ==
    /\ pollPc = "add_save"
    /\ persisted' = save_record_dict
    /\ CmdSend("add_ok", "poller")
    /\ Handled
    /\ asyncOut' = <<>>
    /\ UNCHANGED <<rootExists, record_dict, recorder_processes, recording_count,
                   orphans, downloads>>
    /\ addSnap' = [addSnap EXCEPT !.st = "added"]
    /\ HandlerFrame

(***************************************************************************)
(* remove_streamer, send_list, on the command poller thread.               *)
(***************************************************************************)
\* lines 351-354: refuse a channel that is not tracked
RemoveCheck ==
    /\ pollPc = "dispatch"
    /\ command_data.type = "remove"
    /\ IF command_data.channel_id \notin Keys(record_dict)
       THEN Handled /\ CmdSend("remove_failed", "poller")
       ELSE /\ pollPc' = "remove_wait"
            /\ cmd_channel_id' = command_data.channel_id
            /\ UNCHANGED <<command_data, cmdSock>>
    /\ asyncOut' = <<>>
    /\ UNCHANGED <<rootExists, registry, downloads>>
    /\ PollFrame

\* lines 356-357: the busy-wait saw loop_running false
RemoveWait ==
    /\ pollPc = "remove_wait"
    /\ hasattr_loop_running
    /\ ~loop_running
    /\ pollPc' = "remove_pop"
    /\ asyncOut' = <<>>
    /\ UNCHANGED <<rootExists, registry, command_data, cmd_channel_id, cmdSock,
                   downloads>>
    /\ PollFrame

\* line 358
RemovePop ==
    /\ pollPc = "remove_pop"
    /\ record_dict' = Pop(record_dict, cmd_channel_id)
    /\ pollPc' = "remove_terminate"
    /\ asyncOut' = <<>>
    /\ UNCHANGED <<rootExists, recorder_processes, recording_count, persisted,
                   orphans, command_data, cmd_channel_id, cmdSock, downloads>>
    /\ PollFrame

\* lines 360-363 on one entry: terminate() and wait() on the capture process;
\* the chat process of the entry is left alone
TerminateRecorder(entry) ==
    IF entry.recorder # None
    THEN [entry |-> SetField(entry, "recorder", "exited"), dec |-> 1]
    ELSE [entry |-> entry, dec |-> 0]

\* lines 360-363
RemoveTerminate ==
    /\ pollPc = "remove_terminate"
    /\ LET r == TerminateRecorder(recorder_processes[cmd_channel_id])
       IN  /\ recorder_processes' =
                [recorder_processes EXCEPT ![cmd_channel_id] = r.entry]
           /\ recording_count' = recording_count - r.dec
    /\ pollPc' = "remove_del"
    /\ asyncOut' = <<>>
    /\ UNCHANGED <<rootExists, record_dict, persisted, orphans, command_data,
                   cmd_channel_id, cmdSock, downloads>>
    /\ PollFrame

\* the subprocesses of an entry that are still running
RunningOf(entry, c) ==
    (IF entry.recorder = "running"
     THEN {[kind |-> "capture", chan |-> c]} ELSE {})
    \cup (IF "chat_recorder" \in DOMAIN entry /\ entry.chat_recorder = "running"
          THEN {[kind |-> "chat", chan |-> c]} ELSE {})

\* line 365: the entry goes; what it still referred to runs on untracked
RemoveDel ==
    /\ pollPc = "remove_del"
    /\ orphans' = orphans \cup RunningOf(recorder_processes[cmd_channel_id],
                                         cmd_channel_id)
    /\ recorder_processes' = DelEntry(recorder_processes, cmd_channel_id)
    /\ pollPc' = "remove_open"
    /\ asyncOut' = <<>>
    /\ UNCHANGED <<rootExists, record_dict, recording_count, persisted,
                   command_data, cmd_channel_id, cmdSock, downloads>>
    /\ PollFrame

\* lines 368 and 312: save_record_dict opens the file
RemoveOpen ==
    /\ pollPc = "remove_open"
    /\ persisted' = truncate
    /\ pollPc' = "remove_save"
    /\ asyncOut' = <<>>
    /\ UNCHANGED <<rootExists, record_dict, recorder_processes, recording_count,
                   orphans, command_data, cmd_channel_id, cmdSock, downloads>>
    /\ PollFrame

\* lines 313 and 370-371: the list is written and the file closed, reply
RemoveSave ==
    /\ pollPc = "remove_save"
    /\ persisted' = save_record_dict
    /\ CmdSend("remove_ok", "poller")
    /\ Handled
    /\ asyncOut' = <<>>
    /\ UNCHANGED <<rootExists, record_dict, recorder_processes, recording_count,
                   orphans, downloads>>
    /\ addSnap' = IF /\ addSnap.called
                     /\ addSnap.st = "added"
                     /\ addSnap.id = cmd_channel_id
                  THEN [addSnap EXCEPT !.st = "removed"]
                  ELSE NoCall
    /\ HandlerFrame

\* send_list, lines 298-309: reads recorder_processes[id] for every id of
\* record_dict
SendList ==
    /\ pollPc = "dispatch"
    /\ command_data.type = "list"
    /\ CmdSend("list", "poller")
    /\ Handled
    /\ asyncOut' = <<>>
    /\ UNCHANGED <<rootExists, registry, downloads>>
    /\ PollFrame


(***************************************************************************)
(* download_vod on the poller thread, start_dl / on_streamlink_exit on a   *)
(* background thread.                                                      *)
(***************************************************************************)
\* ChzzkAPI.get_video: None when the URL does not match the pattern or on an
\* HTTP error status; the data (here: the channel name) on success
get_video(url, outcome) ==
    CASE url # "v1" -> [raised |-> FALSE, data |-> None]
      [] outcome = "timeout" -> [raised |-> TRUE, data |-> None]
      [] outcome = "http_error" -> [raised |-> FALSE, data |-> None]
      [] OTHER -> [raised |-> FALSE, data |-> "n1"]

\* lines 433-501: metadata, path, start of the download thread
DownloadVod(outcome, mountOk) ==
    /\ pollPc = "dispatch"
    /\ command_data.type = "dl"
    /\ LET v == get_video(command_data.url, outcome)
           r == get_file_path(v.data, FileName(v.data), TRUE, mountOk)
       IN  IF v.raised
           THEN /\ PollerDies
                /\ asyncOut' = <<>>
                /\ UNCHANGED <<cmdSock, rootExists, downloads>>
           ELSE IF v.data = None
           THEN /\ Handled
                /\ CmdSend("dl_failed", "poller")
                /\ asyncOut' = <<>>
                /\ UNCHANGED <<rootExists, downloads>>
           ELSE /\ rootExists' = r.root
                /\ asyncOut' = [i \in DOMAIN r.msgs |-> Reply(r.msgs[i], "poller")]
                /\ downloads' = Append(downloads, [st |-> "running", path |-> r.path])
                /\ pollPc' = "dl_reply"
                /\ UNCHANGED <<command_data, cmd_channel_id, cmdSock>>
    /\ UNCHANGED registry
    /\ PollFrame

\* lines 503-518: the "download started" reply
DownloadReply ==
    /\ pollPc = "dl_reply"
    /\ CmdSend("dl_started", "poller")
    /\ Handled
    /\ asyncOut' = <<>>
    /\ UNCHANGED <<rootExists, registry, downloads>>
    /\ PollFrame

\* a download thread that counts its subprocess as a capture that ended
DownloadExit_Counting(i, rc) ==
    /\ i \in DOMAIN downloads
    /\ downloads[i].st = "running"
    /\ downloads' = [downloads EXCEPT ![i].st = IF rc = 0 THEN "exit0" ELSE "exit1"]
    /\ recording_count' = recording_count - 1
    /\ UNCHANGED <<config, sideVars, rootExists, record_dict,
                   recorder_processes, persisted, orphans, loopVars, pollVars,
                   cmdSock, asyncOut>>

\* start_dl, lines 485-486: the download subprocess exits with return code rc
DownloadExit(i, rc) ==
    /\ i \in DOMAIN downloads
    /\ downloads[i].st = "running"
    /\ downloads' = [downloads EXCEPT ![i].st = IF rc = 0 THEN "exit0" ELSE "exit1"]
    /\ UNCHANGED <<config, sideVars, rootExists, registry, loopVars, pollVars, cmdSock,
                   asyncOut>>

RemoveAt(s, i) == SubSeq(s, 1, i - 1) \o SubSeq(s, i + 1, Len(s))

\* on_streamlink_exit, lines 462-482.  fileExists: os.path.getsize finds the
\* file (it raises otherwise, and for a path of None, and the thread ends)
OnStreamlinkExit(i, fileExists) ==
    /\ i \in DOMAIN downloads
    /\ downloads[i].st # "running"
    /\ IF downloads[i].st = "exit0"
       THEN /\ IF fileExists /\ downloads[i].path # None
               THEN CmdSend("dl_finished", "dl_thread")
               ELSE UNCHANGED cmdSock
            /\ asyncOut' = <<>>
       ELSE /\ asyncOut' = <<Reply("dl_failed", "dl_thread")>>
            /\ UNCHANGED cmdSock
    /\ downloads' = RemoveAt(downloads, i)
    /\ UNCHANGED <<config, sideVars, rootExists, registry, loopVars, pollVars>>

(***************************************************************************)
(* The system.                                                             *)
(***************************************************************************)
LoopNext ==
    \/ LoopStart
    \/ LoopIterError
    \/ LoopExhausted
    \/ VisitKeyError
    \/ VisitRunning
    \/ \E fileExists \in BOOLEAN : VisitReap(fileExists)
    \/ \E outcome \in ApiOutcomes, status \in {"OPEN", "CLOSE"} :
          VisitCheckLive(outcome, status)
    \/ \E mountOk \in BOOLEAN : HandleLive(mountOk)
    \/ HandleNotLive
    \/ LoopEnd

EnvNext ==
    \/ \E c \in Ids : ProcExit(c)
    \/ \E o \in orphans : OrphanExit(o)
    \/ RootChange

\* commands by channel id that change or list the registry
RegistryCommands ==
    {c \in Commands : c.type \in {"add", "remove", "list"}
                       /\ (c.type = "add" => ~c.add_by_name)}

RegistryNext ==
    \/ \E cmd \in RegistryCommands : PollRecv(cmd)
    \/ \E page \in Pages, so \in ApiOutcomes, io \in ApiOutcomes : AddCheck(page, so, io)
    \/ AddWait
    \/ AddRecordDict
    \/ AddProcesses
    \/ \E makedirsOk \in BOOLEAN : AddOpen(makedirsOk)
    \/ AddSave
    \/ RemoveCheck
    \/ RemoveWait
    \/ RemovePop
    \/ RemoveTerminate
    \/ RemoveDel
    \/ RemoveOpen
    \/ RemoveSave
    \/ SendList

\* commands that leave the registry as it is (the startup list holds "c1")
DownloadCommands ==
    [type : {"dl"}, url : Urls]
    \cup {[type |-> "add", channel |-> "c1", add_by_name |-> FALSE],
          [type |-> "add", channel |-> BadId, add_by_name |-> FALSE],
          [type |-> "remove", channel_id |-> "c2"],
          [type |-> "list"]}

DownloadNext ==
    \/ \E cmd \in DownloadCommands : PollRecv(cmd)
    \/ \E page \in Pages, so \in ApiOutcomes, io \in ApiOutcomes : AddCheck(page, so, io)
    \/ RemoveCheck
    \/ SendList
    \/ \E outcome \in ApiOutcomes, mountOk \in BOOLEAN : DownloadVod(outcome, mountOk)
    \/ DownloadReply
    \/ \E i \in 1..MaxDownloads, rc \in {0, 1} : DownloadExit(i, rc)
    \/ \E i \in 1..MaxDownloads, fileExists \in BOOLEAN : OnStreamlinkExit(i, fileExists)

\* the loop and the poller handling add, remove and list, with and without
\* chat recording, no fallback directory and no mount command
Init == \E cfg \in Configs : ~cfg.FALLBACK /\ ~cfg.MNT_CMD /\ InitWith(cfg) /\ BridgeUp

Next == LoopNext \/ EnvNext \/ RegistryNext

Spec == Init /\ [][Next]_vars

\* the loop, the poller handling dl and the commands that fail or list, and
\* the download threads
InitDownload == \E cfg \in Configs : cfg.CHAT /\ ~cfg.MNT_CMD /\ InitWith(cfg) /\ BridgeUp

\* with the registry fixed, the steps of the loop that can happen
SteadyLoopNext ==
    \/ LoopStart
    \/ LoopExhausted
    \/ VisitRunning
    \/ \E fileExists \in BOOLEAN : VisitReap(fileExists)
    \/ \E outcome \in ApiOutcomes, status \in {"OPEN", "CLOSE"} :
          VisitCheckLive(outcome, status)
    \/ \E mountOk \in BOOLEAN : HandleLive(mountOk)
    \/ HandleNotLive
    \/ LoopEnd
    \/ \E c \in Ids : ProcExit(c)
    \/ RootChange

SpecDownload == InitDownload /\ [][SteadyLoopNext \/ DownloadNext]_vars


(***************************************************************************)
(* Path resolution on its own: get_file_path called for every file name of *)
(* FileNames, with every set of files of FileUniverse in the directory,    *)
(* every configuration, the root present or absent.                        *)
(***************************************************************************)
MaxSuffix == 2             \* largest suffix number a file of FileUniverse has

\* file names get_file_path is asked for: with an extension, ending in what
\* looks like a suffix, without an extension
FileNames == {"a.ts", "a (1).ts", "a"}

\* "<stem> (n)<ext>" for a file name
Suffixed(file_name, n) ==
    LET parts == splitext(file_name)
    IN  parts.root \o Suffix(n) \o parts.ext

\* the files that may exist in the directory
FileUniverse ==
    FileNames \cup {Suffixed(f, n) : f \in FileNames, n \in 1..MaxSuffix}

InitPath == \E cfg \in Configs : ~cfg.CHAT /\ InitWith(cfg) /\ BridgeUp

\* a file of the directory is created or deleted by somebody else
FileChange(name) ==
    /\ ~resolved.called
    /\ existing' = IF name \in existing THEN existing \ {name}
                   ELSE existing \cup {name}
    /\ UNCHANGED <<config, rootExists, registry, loopVars, pollVars, cmdSock,
                   asyncOut, downloads, fsDirs, resolved, bridgeVars, loadVars>>

\* one call of get_file_path
ResolvePath(username, file_name, is_vod, mountOk) ==
    /\ ~resolved.called
    /\ mountOk => (MNT_CMD /\ ~rootExists)
    /\ LET r == get_file_path(username, file_name, is_vod, mountOk)
       IN  /\ resolved' = [called |-> TRUE,
                           file_name |-> file_name,
                           sub_dir |-> IF is_vod THEN "VOD" ELSE username,
                           rootBefore |-> rootExists,
                           mounted |-> MNT_CMD /\ mountOk,
                           dirsBefore |-> fsDirs,
                           path |-> r.path,
                           msgs |-> r.msgs]
           /\ rootExists' = r.root
           /\ fsDirs' = r.dirs
    /\ UNCHANGED <<config, registry, loopVars, pollVars, cmdSock, asyncOut,
                   downloads, existing, bridgeVars, loadVars>>

\* the caller writes the file it asked a path for
PathUsed ==
    /\ resolved.called
    /\ resolved' = NoCall
    /\ existing' = existing \cup
         {name \in FileUniverse :
             resolved.path # None /\ endswith(resolved.path, "/" \o name)}
    /\ UNCHANGED <<config, rootExists, registry, loopVars, pollVars, cmdSock,
                   asyncOut, downloads, fsDirs, bridgeVars,
                   loadVars>>

PathNext ==
    \/ RootChange
    \/ \E name \in FileUniverse : FileChange(name)
    \/ \E file_name \in FileNames, is_vod \in BOOLEAN, mountOk \in BOOLEAN :
          ResolvePath("n1", file_name, is_vod, mountOk)
    \/ PathUsed

SpecPath == InitPath /\ [][PathNext]_vars

(***************************************************************************)
(* The start of the bridge: init_discord_bot and the rest of __init__ on   *)
(* the main thread, on_ready in the bot process, with cfg['use_discord_bot']*)
(* set.  The two sockets are separate connections, so the two tokens of    *)
(* the bot arrive independently of each other.                             *)
(***************************************************************************)

\* the positions of the main thread at which init_discord_bot has not
\* returned yet
InHandshake == {"poll", "recv_cmd", "recv_notify", "sleep"}
\* the positions of the main thread after init_discord_bot has returned
PastHandshake == {"returned", "poller_started", "announced", "in_loop"}

InitBridge ==
    /\ \E cfg \in Configs :
          ~cfg.CHAT /\ ~cfg.FALLBACK /\ ~cfg.MNT_CMD /\ InitWith(cfg)
    /\ bridgePc = "start"
    /\ botPc = "none"
    /\ notifyChan = NoToken
    /\ cmdChan = NoToken
    /\ okChan = NoToken
    /\ message = None
    /\ message_cmd = None
    /\ peerDiedEarly = FALSE

BridgeFrame ==
    UNCHANGED <<config, rootExists, registry, loopVars, pollVars, replyLog,
                asyncOut, downloads, pathVars, loadVars>>

\* init_discord_bot up to the while loop: without a token the engine exits,
\* with one it spawns the bot and creates its two sockets
HsStart(tokenGiven) ==
    /\ initPc = "done"
    /\ bridgePc = "start"
    /\ IF tokenGiven
         THEN bridgePc' = "poll" /\ botPc' = "starting"
         ELSE bridgePc' = "exited" /\ botPc' = botPc
    /\ UNCHANGED <<notifyChan, cmdChan, okChan, message, message_cmd,
                   peerDiedEarly, repState>>
    /\ BridgeFrame

\* discord_process.poll() and the test of its exit code
HsPoll ==
    /\ bridgePc = "poll"
    /\ bridgePc' = IF botPc = "dead" THEN "exited" ELSE "recv_cmd"
    /\ UNCHANGED <<botPc, notifyChan, cmdChan, okChan, message, message_cmd,
                   peerDiedEarly, repState>>
    /\ BridgeFrame

\* command_socket.recv_string(NOBLOCK): a REP socket that owes a reply raises
\* ZMQError as an empty one does
HsRecvCmd ==
    /\ bridgePc = "recv_cmd"
    /\ IF repState = "recv" /\ cmdChan.st = "arrived"
         THEN /\ message_cmd' = cmdChan.tok
              /\ cmdChan' = NoToken
              /\ repState' = "send"
              /\ bridgePc' = "recv_notify"
         ELSE /\ bridgePc' = "sleep"
              /\ UNCHANGED <<message_cmd, cmdChan, repState>>
    /\ UNCHANGED <<botPc, notifyChan, okChan, message, peerDiedEarly>>
    /\ BridgeFrame

\* the test of the two tokens
both_ready(msg, msg_cmd) == msg = "ready" /\ msg_cmd = "ready"

\* a handshake that does not wait for the notify socket
HsRecvNotify_Skipped ==
    /\ bridgePc = "recv_notify"
    /\ message' = "ready"
    /\ okChan' = [st |-> "in_flight", tok |-> "ok"]
    /\ repState' = "recv"
    /\ bridgePc' = "returned"
    /\ UNCHANGED <<botPc, notifyChan, cmdChan, message_cmd, peerDiedEarly>>
    /\ BridgeFrame

\* socket.recv_string(NOBLOCK), the test of the two tokens, the 'ok' reply
\* and the return
HsRecvNotify ==
    /\ bridgePc = "recv_notify"
    /\ IF notifyChan.st = "arrived"
         THEN /\ message' = notifyChan.tok
              /\ notifyChan' = NoToken
              /\ IF both_ready(notifyChan.tok, message_cmd)
                   THEN /\ okChan' = [st |-> "in_flight", tok |-> "ok"]
                        /\ repState' = "recv"
                        /\ bridgePc' = "returned"
                   ELSE /\ bridgePc' = "poll"
                        /\ UNCHANGED <<okChan, repState>>
         ELSE /\ bridgePc' = "sleep"
              /\ UNCHANGED <<message, notifyChan, okChan, repState>>
    /\ UNCHANGED <<botPc, cmdChan, message_cmd, peerDiedEarly>>
    /\ BridgeFrame

\* except zmq.ZMQError: time.sleep(1), then the next round of the while loop
HsSleep ==
    /\ bridgePc = "sleep"
    /\ bridgePc' = "poll"
    /\ UNCHANGED <<botPc, notifyChan, cmdChan, okChan, message, message_cmd,
                   peerDiedEarly, repState>>
    /\ BridgeFrame

\* __init__ starts the poll_command thread
StartPoller ==
    /\ bridgePc = "returned"
    /\ bridgePc' = "poller_started"
    /\ UNCHANGED <<botPc, notifyChan, cmdChan, okChan, message, message_cmd,
                   peerDiedEarly, repState>>
    /\ BridgeFrame

\* __init__ sends the startup embed, the first message on the notify socket
SendStarted ==
    /\ bridgePc = "poller_started"
    /\ bridgePc' = "announced"
    /\ UNCHANGED <<botPc, notifyChan, cmdChan, okChan, message, message_cmd,
                   peerDiedEarly, repState>>
    /\ BridgeFrame

\* line 182 assigns loop_running, __init__ returns and main() calls loop()
EnterLoop ==
    /\ bridgePc = "announced"
    /\ bridgePc' = "in_loop"
    /\ UNCHANGED <<botPc, notifyChan, cmdChan, okChan, message, message_cmd,
                   peerDiedEarly, repState>>
    /\ BridgeFrame

\* on_ready: the bot has logged on and creates its two sockets
BotBind ==
    /\ botPc = "starting"
    /\ botPc' = "bound"
    /\ UNCHANGED <<bridgePc, notifyChan, cmdChan, okChan, message, message_cmd,
                   peerDiedEarly, repState>>
    /\ BridgeFrame

\* on_ready: socket.send_string('ready')
BotSendNotify ==
    /\ botPc = "bound"
    /\ botPc' = "sent_notify"
    /\ notifyChan' = [st |-> "in_flight", tok |-> "ready"]
    /\ UNCHANGED <<bridgePc, cmdChan, okChan, message, message_cmd,
                   peerDiedEarly, repState>>
    /\ BridgeFrame

\* on_ready: command_socket.send_string('ready')
BotSendCmd ==
    /\ botPc = "sent_notify"
    /\ botPc' = "awaiting_ok"
    /\ cmdChan' = [st |-> "in_flight", tok |-> "ready"]
    /\ UNCHANGED <<bridgePc, notifyChan, okChan, message, message_cmd,
                   peerDiedEarly, repState>>
    /\ BridgeFrame

\* on_ready: command_socket.recv_string() returns with the engine's 'ok'
BotRecvOk ==
    /\ botPc = "awaiting_ok"
    /\ okChan.st = "arrived"
    /\ okChan' = NoToken
    /\ botPc' = "ready"
    /\ UNCHANGED <<bridgePc, notifyChan, cmdChan, message, message_cmd,
                   peerDiedEarly, repState>>
    /\ BridgeFrame

\* the bot process exits; what it has sent stays on its way
BotExit ==
    /\ botPc \notin {"none", "dead"}
    /\ botPc' = "dead"
    /\ peerDiedEarly' = (peerDiedEarly \/ bridgePc \in InHandshake)
    /\ UNCHANGED <<bridgePc, notifyChan, cmdChan, okChan, message, message_cmd,
                   repState>>
    /\ BridgeFrame

\* the token on the notify socket reaches the engine
DeliverNotify ==
    /\ notifyChan.st = "in_flight"
    /\ notifyChan' = [notifyChan EXCEPT !.st = "arrived"]
    /\ UNCHANGED <<bridgePc, botPc, cmdChan, okChan, message, message_cmd,
                   peerDiedEarly, repState>>
    /\ BridgeFrame

\* the token on the command socket reaches the engine
DeliverCmd ==
    /\ cmdChan.st = "in_flight"
    /\ cmdChan' = [cmdChan EXCEPT !.st = "arrived"]
    /\ UNCHANGED <<bridgePc, botPc, notifyChan, okChan, message, message_cmd,
                   peerDiedEarly, repState>>
    /\ BridgeFrame

\* the engine's 'ok' reaches the bot
DeliverOk ==
    /\ okChan.st = "in_flight"
    /\ okChan' = [okChan EXCEPT !.st = "arrived"]
    /\ UNCHANGED <<bridgePc, botPc, notifyChan, cmdChan, message, message_cmd,
                   peerDiedEarly, repState>>
    /\ BridgeFrame

BridgeNext ==
    \/ \E tokenGiven \in BOOLEAN : HsStart(tokenGiven)
    \/ HsPoll
    \/ HsRecvCmd
    \/ HsRecvNotify
    \/ HsSleep
    \/ StartPoller
    \/ SendStarted
    \/ EnterLoop
    \/ BotBind
    \/ BotSendNotify
    \/ BotSendCmd
    \/ BotRecvOk
    \/ BotExit
    \/ DeliverNotify
    \/ DeliverCmd
    \/ DeliverOk

SpecBridge == InitBridge /\ [][BridgeNext]_vars

\* the handshake with its scheduling: the main thread keeps running its while
\* loop, and a token that was sent on a connected socket arrives; nothing
\* is assumed about the bot process
BridgeFairness ==
    /\ WF_vars(HsPoll)
    /\ WF_vars(HsRecvCmd)
    /\ WF_vars(HsRecvNotify)
    /\ WF_vars(HsSleep)
    /\ WF_vars(DeliverNotify)
    /\ WF_vars(DeliverCmd)

SpecBridgeFair == SpecBridge /\ BridgeFairness

(***************************************************************************)
(* The start of the engine: __init__ loads record_list.txt, then starts    *)
(* the bridge, then main() calls loop().                                   *)
(***************************************************************************)

\* the contents record_list.txt can have when the engine starts: the keys of
\* a channel map, in any order (the empty list when the file is missing)
StoredLists ==
    {<<>>} \cup {<<a>> : a \in Ids}
    \cup {<<x[1], x[2]>> : x \in {y \in Ids \X Ids : y[1] # y[2]}}

InitStartup ==
    /\ CHAT = FALSE
    /\ FALLBACK = FALSE
    /\ MNT_CMD = FALSE
    /\ rootExists = TRUE
    /\ record_dict = <<>>
    /\ recorder_processes = [c \in {} |-> StartupEntry]
    /\ recording_count = 0
    /\ persisted \in StoredLists
    /\ orphans = {}
    /\ loopPc = "start"
    /\ loop_running = FALSE
    /\ message_sent = FALSE
    /\ iterLen = 0
    /\ iterIdx = 0
    /\ channel_id = None
    /\ is_streaming = None
    /\ loopOut = <<>>
    /\ loopEnv = NoEnv
    /\ cycle_notified = FALSE
    /\ cycle_quiet = TRUE
    /\ pollPc = "idle"
    /\ command_data = NoCommand
    /\ cmd_channel_id = None
    /\ repState = "recv"
    /\ replyLog = <<>>
    /\ asyncOut = <<>>
    /\ downloads = <<>>
    /\ existing = {}
    /\ fsDirs = {}
    /\ resolved = NoCall
    /\ bridgePc = "start"
    /\ botPc = "none"
    /\ notifyChan = NoToken
    /\ cmdChan = NoToken
    /\ okChan = NoToken
    /\ message = None
    /\ message_cmd = None
    /\ peerDiedEarly = FALSE
    /\ initPc = "load"
    /\ initIdx = 1
    /\ addSnap = NoCall
    /\ searched = NoCall

LoadFrame ==
    UNCHANGED <<config, rootExists, recording_count, persisted, orphans,
                loopVars, pollVars, cmdSock, asyncOut, downloads, pathVars,
                bridgeVars>>

\* lines 124-139, one round of the while loop for channel_ids[initIdx]: an
\* exception of get_channel_info leaves __init__, None leads to the sleep,
\* data is stored in record_dict and the for loop goes on
LoadFetch(outcome) ==
    /\ initPc = "load"
    /\ initIdx <= Len(persisted)
    /\ LET info == get_channel_info(persisted[initIdx], outcome)
       IN  IF info.raised
           THEN /\ initPc' = "aborted"
                /\ UNCHANGED <<initIdx, record_dict>>
           ELSE IF info.data = None
           THEN /\ initPc' = "sleep"
                /\ UNCHANGED <<initIdx, record_dict>>
           ELSE /\ record_dict' = SetKey(record_dict, persisted[initIdx])
                /\ initIdx' = initIdx + 1
                /\ UNCHANGED initPc
    /\ UNCHANGED recorder_processes
    /\ LoadFrame

\* lines 138-139: time.sleep(5), then the next round for the same identifier
LoadSleep ==
    /\ initPc = "sleep"
    /\ initPc' = "load"
    /\ UNCHANGED <<initIdx, record_dict, recorder_processes>>
    /\ LoadFrame

\* lines 141-147: the for loop is over, one entry per key of record_dict
LoadEntries ==
    /\ initPc = "load"
    /\ initIdx > Len(persisted)
    /\ recorder_processes' = [c \in Keys(record_dict) |-> StartupEntry]
    /\ initPc' = "done"
    /\ UNCHANGED <<initIdx, record_dict>>
    /\ LoadFrame

LoadNext ==
    \/ \E outcome \in ApiOutcomes : LoadFetch(outcome)
    \/ LoadSleep
    \/ LoadEntries

SpecStartup == InitStartup /\ [][LoadNext \/ BridgeNext]_vars

(***************************************************************************)
(* The command poller on its own, with the loop asleep: add by name, add   *)
(* by id, remove, list, and the requests of the bundled bot.               *)
(***************************************************************************)
PollerCommands ==
    {c \in Commands : c.type \in {"add", "remove", "list"}} \cup BotCommands

InitPoller ==
    /\ \E cfg \in Configs :
          ~cfg.CHAT /\ ~cfg.FALLBACK /\ ~cfg.MNT_CMD /\ InitWith(cfg)
    /\ BridgeUp

PollerNext ==
    \/ \E cmd \in PollerCommands : PollRecv(cmd)
    \/ AddKeyError
    \/ \E page \in Pages, so \in ApiOutcomes, io \in ApiOutcomes : AddCheck(page, so, io)
    \/ AddWait
    \/ AddRecordDict
    \/ AddProcesses
    \/ \E makedirsOk \in BOOLEAN : AddOpen(makedirsOk)
    \/ AddSave
    \/ RemoveCheck
    \/ RemoveWait
    \/ RemovePop
    \/ RemoveTerminate
    \/ RemoveDel
    \/ RemoveOpen
    \/ RemoveSave
    \/ SendList

SpecPoller == InitPoller /\ [][PollerNext]_vars

(***************************************************************************)
(* The constructor with the poller thread it starts: the handshake, the    *)
(* start of poll_command at lines 161-162, the startup embed and line 182, *)
(* with add and remove commands of a bot that is ready.                    *)
(***************************************************************************)
\* the poll_command thread runs from line 162 on
PollerStarted == bridgePc \in {"poller_started", "announced", "in_loop"}

ConstructorCommands == {c \in RegistryCommands : c.type \in {"add", "remove"}}

\* poll_command receives a command of the bot, which sends commands once its
\* on_ready has returned
ConstructorRecv(cmd) ==
    /\ PollerStarted
    /\ botPc = "ready"
    /\ PollRecv(cmd)

ConstructorNext ==
    \/ BridgeNext
    \/ \E cmd \in ConstructorCommands : ConstructorRecv(cmd)
    \/ \E page \in Pages, so \in ApiOutcomes, io \in ApiOutcomes : AddCheck(page, so, io)
    \/ WaitAttributeError
    \/ AddWait
    \/ AddRecordDict
    \/ AddProcesses
    \/ \E makedirsOk \in BOOLEAN : AddOpen(makedirsOk)
    \/ AddSave
    \/ RemoveCheck
    \/ RemoveWait
    \/ RemovePop
    \/ RemoveTerminate
    \/ RemoveDel
    \/ RemoveOpen
    \/ RemoveSave

SpecConstructor == InitBridge /\ [][ConstructorNext]_vars

(***************************************************************************)
(* The claims.                                                             *)
(***************************************************************************)

\* C1: in every reachable state, intermediate states of add_streamer and
\* remove_streamer included, record_dict and recorder_processes have the same
\* key set.
C1_KeysInLockStep == Keys(record_dict) = DOMAIN recorder_processes

\* C2: for every registered channel, after every completed transition of its
\* process entry (creation, capture start, reap, forced stop), the path of the
\* entry is set if and only if its recorder handle is set.
C2_PathIffRecorder ==
    \A c \in DOMAIN recorder_processes :
        (recorder_processes[c].path # None) <=> (recorder_processes[c].recorder # None)

\* C2 witness: a channel added by add_streamer has a capture and a path
C2_Witness ==
    \E c \in DOMAIN recorder_processes :
        /\ "chat_recorder" \notin DOMAIN recorder_processes[c]
        /\ recorder_processes[c].recorder = "running"
        /\ recorder_processes[c].path # None

\* C3: no insertion into or deletion from record_dict or recorder_processes
\* happens while the loop is mid-cycle (loop_running is true).
C3_MutateOnlyOutsideCycle ==
    [][(record_dict' # record_dict
        \/ DOMAIN recorder_processes' # DOMAIN recorder_processes)
       => ~loop_running]_vars

\* C4: every command is answered by exactly one message on the command
\* socket, sent by its handler before the next command is received; no other
\* message is sent on the command socket, none by a download thread.
C4_OneReplyPerCommand ==
    [][/\ \A i \in DOMAIN replyLog' : replyLog'[i].by = "poller"
       /\ (pollPc \notin {"idle", "dead"} /\ pollPc' = "idle")
             => Len(replyLog') = 1]_vars

\* C5: an add command whose identifier is already in the registry is answered
\* with the already-tracked failure and leaves record_dict, recorder_processes
\* and the persisted list unchanged.
C5_AddTrackedRefused ==
    [][(/\ pollPc = "dispatch"
        /\ command_data.type = "add"
        /\ ~command_data.add_by_name
        /\ command_data.channel \in Keys(record_dict)
        /\ pollPc' # pollPc)
       => /\ replyLog' = <<Reply("add_failed_already", "poller")>>
          /\ UNCHANGED <<record_dict, recorder_processes, persisted>>]_vars

\* C6: when remove_streamer succeeds for a channel, no subprocess the engine
\* was tracking for it (capture, chat capture) keeps running.
C6_RemoveStopsAll ==
    [][(pollPc = "remove_save" /\ pollPc' = "idle")
       => ~\E o \in orphans' : o.chan = cmd_channel_id]_vars

\* C7: a remove command for an identifier that is not in the registry is
\* answered with the not-tracked failure, terminates no subprocess and leaves
\* record_dict, recorder_processes and the persisted list unchanged.
C7_RemoveUntrackedRefused ==
    [][(/\ pollPc = "dispatch"
        /\ command_data.type = "remove"
        /\ command_data.channel_id \notin Keys(record_dict)
        /\ pollPc' # pollPc)
       => /\ replyLog' = <<Reply("remove_failed", "poller")>>
          /\ UNCHANGED <<record_dict, recorder_processes, persisted, orphans>>]_vars

Heartbeats(msgs) == {i \in DOMAIN msgs : IsAlive(msgs[i])}

\* C8: at the end of a cycle the loop sends a heartbeat if and only if it has
\* sent no other message on the notify socket during the cycle (storage
\* warnings and errors of get_file_path count); never more than one, and none
\* at another point of the cycle.
C8_HeartbeatIffSilent ==
    [][IF loopPc = "end" /\ loopPc' = "start"
       THEN /\ Cardinality(Heartbeats(loopOut')) <= 1
            /\ (Heartbeats(loopOut') # {}) <=> ~cycle_notified
       ELSE loopOut' # loopOut => Heartbeats(loopOut') = {}]_vars

\* C9: when the live-status query for a channel fails (HTTP error status or
\* timeout), the loop sends a failure notification for that channel, starts no
\* capture for it, and goes on with the remaining channels.
C9_FailedCheckNotified ==
    (loopEnv.check \in {"http_error", "timeout"} /\ loopPc # "handle")
    => /\ loopPc = "body"
       /\ loopOut = <<Msg("check_failed", channel_id)>>
       /\ channel_id \in DOMAIN recorder_processes
            => recorder_processes[channel_id].recorder = None

\* C10: for every registered channel, loaded at startup or added by a command,
\* with or without chat recording: when its capture has an exit code and the
\* output file exists, the loop sends exactly one "recording ended", leaves
\* recorder, path and chat recorder of the entry cleared, and goes on.
\* Stated for the reaps that happen while no command is being handled.
C10_ReapClearsEntry ==
    [][(/\ pollPc = "idle"
        /\ HasNext
        /\ NextKey \in DOMAIN recorder_processes
        /\ recorder_processes[NextKey].recorder = "exited"
        /\ iterIdx' = iterIdx + 1
        /\ loopEnv'.file = "found")
       => /\ loopOut' = <<Msg("rec_ended", NextKey)>>
          /\ loopPc' = "body"
          /\ recorder_processes'[NextKey] = StartupEntry]_vars


\* every step of the loop thread hands out a key or moves loopPc
LoopStep == loopPc' # loopPc \/ iterIdx' # iterIdx

\* C11: when a tracked capture has exited and its output file does not exist,
\* the loop sends a "file not found" notification for the channel, clears the
\* entry of the channel, launches no capture for it in that step and goes on
\* with the cycle.
C11_MissingFileReported ==
    [][(/\ HasNext
        /\ NextKey \in DOMAIN recorder_processes
        /\ recorder_processes[NextKey].recorder = "exited"
        /\ iterIdx' = iterIdx + 1
        /\ loopEnv'.file = "missing")
       => /\ loopOut' = <<Msg("rec_file_missing", NextKey)>>
          /\ loopPc' = "body"
          /\ recorder_processes'[NextKey].recorder = None
          /\ recorder_processes'[NextKey].path = None]_vars


\* the capture processes of channel c that run: the tracked one and those no
\* entry refers to any more
RunningCaptures(rp, orph, c) ==
    (IF c \in DOMAIN rp /\ rp[c].recorder = "running" THEN 1 ELSE 0)
    + Cardinality({o \in orph : o.kind = "capture" /\ o.chan = c})

\* a step hands channel c a running capture it did not track before
Launched(c) ==
    /\ c \in DOMAIN recorder_processes'
    /\ recorder_processes'[c].recorder = "running"
    /\ c \in DOMAIN recorder_processes => recorder_processes[c].recorder # "running"

\* C12: at most one capture subprocess runs per channel, and a capture is
\* launched for a channel only by a step of the loop that handles this channel
\* with a live status reported in this cycle and no recorder in its entry.
C12_OneCapturePerChannel ==
    [][\A c \in Ids :
          /\ RunningCaptures(recorder_processes', orphans', c) <= 1
          /\ Launched(c) => /\ loopPc = "handle"
                            /\ channel_id = c
                            /\ is_streaming = "True"
                            /\ loopEnv.check = "ok"
                            /\ recorder_processes[c].recorder = None]_vars

\* C12 witness: a later cycle has visited a channel whose capture is running
\* and has left it alone
C12_Witness ==
    /\ loopPc = "body"
    /\ channel_id \in DOMAIN recorder_processes
    /\ recorder_processes[channel_id].recorder = "running"
    /\ loopOut = <<>>
    /\ loopEnv = NoEnv
    /\ iterIdx > 0


\* the "recording started" notifications for channel c among msgs
StartedFor(msgs, c) == {i \in DOMAIN msgs : msgs[i] = Msg("rec_started", c)}

C14_NotLiveIsSilent ==
    [][/\ (/\ LoopStep
           /\ \/ loopPc = "handle" /\ is_streaming = "False" /\ loopEnv.check = "ok"
              \/ loopPc = "body" /\ loopEnv'.check = "ok" /\ is_streaming' = "False")
          => /\ loopOut' = <<>>
             /\ loopPc' \in {"handle", "body"}
             /\ UNCHANGED <<recorder_processes, orphans, recording_count>>
       /\ (loopPc = "end" /\ loopPc' = "start" /\ cycle_quiet)
          => /\ loopOut' = <<Msg("alive", None)>>
             /\ ~cycle_notified']_vars

\* C14 witness: a cycle that visited a channel, found every channel not live,
\* and has ended with the heartbeat
C14_Witness ==
    /\ loopPc = "start"
    /\ cycle_quiet
    /\ iterIdx > 0
    /\ loopOut = <<Msg("alive", None)>>


\* C15: no capture and no download is launched for a request whose path
\* resolution gave None: every capture the loop tracks and every download
\* thread was started with a path.
C15_NoLaunchWithoutPath ==
    /\ \A c \in DOMAIN recorder_processes :
          recorder_processes[c].recorder # None => recorder_processes[c].path # None
    /\ \A i \in DOMAIN downloads : downloads[i].path # None


\* str.startswith
startswith(str, prefix) ==
    /\ Len(prefix) <= Len(str)
    /\ SubSeq(str, 1, Len(prefix)) = prefix

\* C16: path resolution returns None only when the root is still absent after
\* the mount attempt and fallback is disabled; when the root is absent at
\* entry and exists after the mount command ran, it returns a path under the
\* root and sends no storage error.
C16_MountedRootIsUsed ==
    resolved.called =>
       /\ resolved.path = None
            => (~FALLBACK /\ ~resolved.rootBefore /\ ~resolved.mounted)
       /\ (~resolved.rootBefore /\ resolved.mounted)
            => /\ resolved.path # None
               /\ startswith(resolved.path, join(RootPath, resolved.sub_dir) \o "/")
               /\ resolved.msgs = <<>>

\* C17: when the root is absent after any mount attempt and fallback is
\* enabled, path resolution returns a path under
\* <cwd>/fallback_recordings/<subdirectory>, that directory exists afterwards,
\* and exactly one warning is sent.
C17_FallbackPath ==
    (resolved.called /\ ~resolved.rootBefore /\ ~resolved.mounted /\ FALLBACK)
    => /\ resolved.path # None
       /\ startswith(resolved.path,
                     join(join(Cwd, FallbackRoot), resolved.sub_dir) \o "/")
       /\ {FallbackRoot, join(FallbackRoot, resolved.sub_dir)} \subseteq fsDirs
       /\ resolved.msgs = <<"warning">>

\* C17 witness: a fallback resolution that found no fallback directory
C17_Witness ==
    /\ resolved.called /\ ~resolved.rootBefore /\ ~resolved.mounted /\ FALLBACK
    /\ resolved.dirsBefore = {}
    /\ resolved.path # None

\* the name the resolver has to give: the name asked for when no file has
\* it, else the name with the smallest free suffix number
ExpectedName(file_name) ==
    IF file_name \notin existing
    THEN file_name
    ELSE LET free == {n \in 1..(Cardinality(existing) + 1) :
                         Suffixed(file_name, n) \notin existing}
         IN  Suffixed(file_name, CHOOSE n \in free : \A k \in free : n <= k)

\* C18: for every file name and every set of existing files, path resolution
\* returns the unsuffixed path when it is free and otherwise "<stem> (n)<ext>"
\* for the smallest n >= 1 no file has; the path returned does not exist, and
\* carries one suffix of the resolver at most.
C18_SmallestFreeSuffix ==
    (resolved.called /\ resolved.path # None)
    => \E dir \in {join(RootPath, resolved.sub_dir),
                   join(join(Cwd, FallbackRoot), resolved.sub_dir)} :
          /\ resolved.path = join(dir, ExpectedName(resolved.file_name))
          /\ ~exists(resolved.path, dir)

\* C18 witness: the name asked for and its first suffixed form both exist
C18_Witness ==
    /\ resolved.called
    /\ resolved.file_name = "a.ts"
    /\ {"a.ts", "a (1).ts"} \subseteq existing
    /\ resolved.path # None
    /\ endswith(resolved.path, "/a (2).ts")


\* C19: init_discord_bot has returned (and so the poller has been started,
\* the startup notification sent, the loop entered) only when the engine has
\* received the token 'ready' on the notify socket and on the command socket:
\* the bot has sent both and neither is still on its way.
C19_ReadyOnBothChannels ==
    bridgePc \in PastHandshake =>
        /\ message = "ready"
        /\ message_cmd = "ready"
        /\ notifyChan = NoToken
        /\ cmdChan = NoToken
        /\ botPc \in {"awaiting_ok", "ready", "dead"}

\* the handshake has completed, the bot has the engine's 'ok' and the startup
\* notification has been sent
C19_Witness ==
    /\ bridgePc = "announced"
    /\ botPc = "ready"
    /\ message = "ready"
    /\ message_cmd = "ready"

\* C20: when the bot process exits while the engine is still in the
\* handshake, the engine does not get past the handshake (it exits and never
\* enters the loop).
C20_PeerExitIsFatal == peerDiedEarly => bridgePc \notin PastHandshake


\* the kind of the reply a step puts on the command socket, None when the
\* step sends no reply
SentReply ==
    IF replyLog' # replyLog /\ replyLog' # <<>>
    THEN replyLog'[Len(replyLog')].kind
    ELSE None

C22_AtomicRewrite ==
    \/ persisted = record_dict
    \/ \E c \in Keys(record_dict) : persisted = Pop(record_dict, c)
    \/ \E c \in Keys(persisted) : Pop(persisted, c) = record_dict


\* C23: the load of record_list.txt is never left because a metadata fetch
\* failed, and when it is over the keys of the channel map are the persisted
\* list.
C23_LoadRetriesUntilSuccess ==
    /\ initPc # "aborted"
    /\ initPc = "done" => record_dict = persisted


\* C24: when an add of an identifier that was not registered has succeeded
\* and the next command that changes the registry is a remove of the same
\* identifier that succeeds, the key set of the channel map, the key set of
\* the process table and the persisted list are those the add found.
C24_AddThenRemoveRestores ==
    (addSnap.called /\ addSnap.st = "removed") =>
        /\ Keys(record_dict) = addSnap.keys
        /\ DOMAIN recorder_processes = addSnap.procKeys
        /\ persisted = addSnap.persisted

\* an add of c2 has succeeded, the remove of c2 after it has just been
\* answered with success
C24_Witness ==
    /\ addSnap.called
    /\ addSnap.st = "removed"
    /\ addSnap.id = "c2"
    /\ replyLog = <<Reply("remove_ok", "poller")>>


\* a step of a dl command: of download_vod on the poller thread, or of a
\* download thread (start_dl, on_streamlink_exit)
DlStep ==
    \/ command_data.type = "dl" /\ pollPc' # pollPc
    \/ downloads' # downloads

\* C25: no step of a dl command, of its download thread or of its completion
\* callback changes the channel map, the process table, recording_count or
\* the persisted identifier list.
C25_DownloadLeavesRegistry ==
    [][DlStep => UNCHANGED <<record_dict, recorder_processes, recording_count,
                             persisted>>]_vars

\* the completion callback of a download has run (the subprocess had failed)
\* and the registry is the one loaded at startup
C25_Witness ==
    /\ asyncOut = <<Reply("dl_failed", "dl_thread")>>
    /\ downloads = <<>>
    /\ record_dict = StartupList
    /\ persisted = StartupList
    /\ DOMAIN recorder_processes = Keys(StartupList)


\* C26: when the completion callback of a download runs, exactly one
\* completion message goes out on the notify socket ('download finished'
\* after exit code 0, 'download failed' otherwise), and the 'download
\* started' message of that download has been sent before.
C26_CompletionNotified ==
    [][\A i \in DOMAIN downloads :
          (downloads[i].st # "running" /\ downloads' = RemoveAt(downloads, i)) =>
              /\ asyncOut' = <<Reply(IF downloads[i].st = "exit0"
                                     THEN "dl_finished" ELSE "dl_failed",
                                     "dl_thread")>>
              /\ ~(pollPc = "dl_reply" /\ i = Len(downloads))]_vars


\* the first candidate of a result page whose name is channel_name, None
\* when the page has none
FirstExactMatch(page, channel_name) ==
    LET hits == {i \in DOMAIN page : ChannelName[page[i]] = channel_name}
    IN  IF hits = {} THEN None
        ELSE page[CHOOSE i \in hits : \A j \in hits : i <= j]

C28_ReapedChannelIsQueried ==
    [][(/\ HasNext
        /\ NextKey \in DOMAIN recorder_processes
        /\ recorder_processes[NextKey].recorder = "exited"
        /\ iterIdx' = iterIdx + 1
        /\ loopPc' = "body"
        /\ recorder_processes'[NextKey].recorder = None)
       => loopEnv'.check # None]_vars


\* C29: an add request built by the bundled bot (type and channel_id) is
\* processed by the engine: the step that dispatches it sends the reply the
\* bot waits for or goes on into add_streamer, and the poller stays alive.
C29_BotAddIsAnswered ==
    [][(/\ pollPc = "dispatch"
        /\ command_data \in BotCommands
        /\ command_data.type = "add"
        /\ pollPc' # pollPc)
       => /\ pollPc' # "dead"
          /\ SentReply # None \/ pollPc' = "add_wait"]_vars


\* C30: when the bot never exits and sends 'ready' on both sockets, the
\* handshake of the engine completes (init_discord_bot sends 'ok' and
\* returns), in whatever order the two tokens arrive.
C30_HandshakeCompletes ==
    ([](botPc # "dead") /\ <>(botPc = "awaiting_ok"))
        => <>(bridgePc \in PastHandshake)


\* the number of registered channels whose process entry holds a recorder
Recording(rd, rp) ==
    Cardinality({c \in Keys(rd) \cap DOMAIN rp : rp[c].recorder # None})

\* C31: recording_count is never negative, and at the end of every cycle and
\* when a remove_streamer has completed it is the number of registered
\* channels whose process entry has a recorder.
C31_CountMatchesRecorders ==
    [][/\ recording_count' >= 0
       /\ ((loopPc = "end" /\ loopPc' = "start")
           \/ (pollPc = "remove_save" /\ pollPc' = "idle"))
          => recording_count' = Recording(record_dict', recorder_processes')]_vars


\* output paths handed to the capture and download subprocesses that run
CapturePaths ==
    {recorder_processes[c].path :
        c \in {d \in DOMAIN recorder_processes :
                  recorder_processes[d].recorder = "running"}} \ {None}

DownloadPaths ==
    {downloads[i].path :
        i \in {j \in DOMAIN downloads : downloads[j].st = "running"}} \ {None}

\* C32: no two capture or download subprocesses that run at the same time
\* were given the same output path.
C32_DistinctOutputPaths ==
    /\ \A i, j \in DOMAIN downloads :
          (/\ i # j
           /\ downloads[i].st = "running" /\ downloads[j].st = "running"
           /\ downloads[i].path # None)
          => downloads[i].path # downloads[j].path
    /\ \A c, d \in DOMAIN recorder_processes :
          (/\ c # d
           /\ recorder_processes[c].recorder = "running"
           /\ recorder_processes[d].recorder = "running"
           /\ recorder_processes[c].path # None)
          => recorder_processes[c].path # recorder_processes[d].path
    /\ CapturePaths \cap DownloadPaths = {}


\* a command handler spins in the busy-wait of add_streamer or remove_streamer
InBusyWait == pollPc \in {"add_wait", "remove_wait"}

\* C33: the busy-wait of add_streamer and remove_streamer always terminates:
\* once a cycle is over, also one that ended because a step raised an error,
\* loop_running is false again, so no handler waits on a flag that nothing
\* will clear.
C33_BusyWaitTerminates ==
    /\ loopPc \in {"start", "crashed"} => ~loop_running
    /\ ~(InBusyWait /\ loopPc = "crashed" /\ loop_running)


\* the latest add_streamer that passed its checks ended without its success
\* reply: the poller thread died inside it
AddAborted ==
    /\ addSnap.called
    /\ addSnap.st = "pending"
    /\ pollPc = "dead"

\* C34: add_streamer is all-or-nothing: when it does not reach its success
\* reply the channel is in neither the channel map, the process table nor the
\* persisted list, and while no handler runs every channel of the channel map
\* was loaded at startup or is in the persisted list.
C34_AddAllOrNothing ==
    /\ AddAborted =>
          /\ addSnap.id \notin Keys(record_dict)
          /\ addSnap.id \notin DOMAIN recorder_processes
          /\ addSnap.id \notin Keys(persisted)
    /\ pollPc \in {"idle", "dead"} =>
          \A c \in Keys(record_dict) : c \in Keys(StartupList) \cup Keys(persisted)


\* C35: the command poller never reads loop_running before line 182 has
\* assigned it: no add or remove handler reaches its busy-wait between the
\* start of the poller thread and the end of the constructor.
C35_FlagAssignedBeforeRead ==
    pollPc \in {"add_wait", "remove_wait"} => hasattr_loop_running

=============================================================================
